---- MODULE Spec2Model ----
(***************************************************************************)
(* A model of hpat's sequence index (src/hpat/data_sequence.py) and of    *)
(* its match / derivation-state records (src/hpat/match.py).               *)
(*                                                                         *)
(* Positions are numbered from 0 as in the source.  A Python list is a    *)
(* TLA+ sequence, a Python dict a function, a uuid4 match id a fresh       *)
(* natural number.  A weight is counted in halves: 2 is 1.0, 1 is 0.5.     *)
(* The value and structure fields of a match, and the cursor fields of a   *)
(* derivation state, decide nothing here and are left out.                 *)
(*                                                                         *)
(* The methods are operators from a DataSequence value to the value        *)
(* afterwards; the Call actions apply them to the state and record the     *)
(* call in the history variables, which no method reads.                   *)
(***************************************************************************)
EXTENDS Integers, Sequences, FiniteSets, TLC

(* ------------------------------ bounds -------------------------------- *)

\* length of the text handed to from_string
SeqLen == 2
\* number of matches created after from_string (ids SeqLen+1 .. SeqLen+MaxNew)
MaxNew == 2
\* longest depends_on_matches list of a match or of a derivation state
MaxDeps == 2
\* the same, in the specifications that also vary captures, clean or drop
ShortDeps == 1
\* longest assumptions list of a derivation state
MaxAssumptions == 1
\* number of runs of Extractor.apply whose matches are given room
MaxRuns == 1
\* number of MatchState objects of one pattern attempt
MaxStates == 3
\* longest list a MatchState accumulates
MaxListLen == 2
\* number of entries the MatchStates of one attempt hold together
MaxHeld == 5

(* ------------------------------ inputs -------------------------------- *)

Positions == 0 .. (SeqLen - 1)

\* concepts of the matches handed to add_match
Concepts == {"Character", "Word", "Sentence"}

\* capture keys (pattern node ids) and captured values
Keys == {"k1", "k2"}
NoExtractions == [k \in Keys |-> <<>>]

\* weight and captures of the matches handed to add_match
Payloads ==
    { [weight |-> 2, extractions |-> [NoExtractions EXCEPT !["k1"] = <<"a">>]],
      [weight |-> 1, extractions |-> [k \in Keys |-> IF k = "k1" THEN <<"b">> ELSE <<"c">>]] }

\* a match of full weight with one capture
PlainPayload == [weight |-> 2, extractions |-> [NoExtractions EXCEPT !["k1"] = <<"a">>]]

Range(s) == {s[i] : i \in 1 .. Len(s)}

\* all sequences over S of length at most n
RECURSIVE SeqsUpTo(_, _)
SeqsUpTo(S, n) ==
    IF n = 0 THEN {<<>>}
    ELSE LET shorter == SeqsUpTo(S, n - 1)
         IN  shorter \cup {Append(s, x) : s \in {t \in shorter : Len(t) = n - 1}, x \in S}

\* every ordering of a finite set, as sequences (a Python set is iterated in
\* an order the program does not choose)
RECURSIVE Orders(_)
Orders(S) ==
    IF S = {} THEN {<<>>}
    ELSE UNION { {<<x>> \o s : s \in Orders(S \ {x})} : x \in S }

(* ------------------------------- state -------------------------------- *)

VARIABLES
    elements,       \* DataSequence.elements: position -> DataElement.matches
    match_by_id,    \* DataSequence.match_by_id
    extractions,    \* DataSequence.extractions
    consolidated,   \* DataSequence.consolidated
    nextId,         \* the next id _get_match_id hands out
    finalized,      \* history: the MatchState.get_matches call, if it was the
                    \* last call: its arguments and its result
    mutated,        \* history: a mutation happened since the last consolidate
    last,           \* history: the last call on the sequence, what it was
                    \* given and what it returned
    pc,             \* where Extractor.apply stands: "idle" outside a call,
                    \* "loop" at the head of its while loop, "resolve" after it
    extractor,      \* the Extractor whose apply is running: patterns and
                    \* single_concepts
    passlog,        \* history: the number of the last apply_once pass within
                    \* its run, and what the pass invoked, got and submitted
    states,         \* the MatchState objects of a pattern attempt in flight
    heap            \* the list objects those MatchStates refer to

\* the variables of the extractor and of the derivation states
extractorVars == <<pc, extractor, passlog>>
forkVars == <<states, heap>>

vars == <<elements, match_by_id, extractions, consolidated, nextId, finalized,
          mutated, last, pc, extractor, passlog, states, heap>>

(* ------------------------------- Match -------------------------------- *)

Match(id, concept, start_idx, size, deps, extr, weight, assumed) ==
    [id |-> id, concept |-> concept, start_idx |-> start_idx, size |-> size,
     depends_on_matches |-> deps, extractions |-> extr, weight |-> weight,
     assumed |-> assumed]

end_idx(m) == m.start_idx + m.size

\* the positions start_idx .. start_idx+size-1
Span(m) == m.start_idx .. (end_idx(m) - 1)

DependencySensitive == {"Sentence", "MakesSense"}

(* ---------------------------- DataElement ----------------------------- *)

\* mutant: the dependency lists are compared for every concept
contains_match_all_sensitive(matches, match) ==
    \E i \in 1 .. Len(matches) :
        LET saved == matches[i]
        IN  /\ saved.concept = match.concept
            /\ saved.size = match.size
            /\ saved.start_idx = match.start_idx
            /\ saved.depends_on_matches = match.depends_on_matches

\* mutant: a stored match is recognised by its id
contains_match_by_id(matches, match) ==
    \E i \in 1 .. Len(matches) : matches[i].id = match.id

contains_match(matches, match) ==
    \E i \in 1 .. Len(matches) :
        LET saved == matches[i]
        IN  /\ saved.concept = match.concept
            /\ saved.size = match.size
            /\ saved.start_idx = match.start_idx
            /\ ~ ( /\ match.concept \in DependencySensitive
                   /\ saved.depends_on_matches # match.depends_on_matches )

\* DataElement.add_match: the new list of the element
element_add_match(matches, match) ==
    IF contains_match(matches, match) THEN matches ELSE Append(matches, match)

(* ---------------------------- DataSequence ---------------------------- *)

\* a DataSequence value: the fields the methods read and write
Self ==
    [elements |-> elements, match_by_id |-> match_by_id,
     extractions |-> extractions, consolidated |-> consolidated]

get_all_match_ids(seq) ==
    UNION { {seq.elements[p][i].id : i \in 1 .. Len(seq.elements[p])} : p \in Positions }

\* mutant: the dependency check is dropped
dependencies_present_unchecked(match, seq) == TRUE

\* Match.dependencies_present
dependencies_present(match, seq) ==
    Range(match.depends_on_matches) \ get_all_match_ids(seq) = {}

\* mutant: the index is marked stale only when the match is inserted
add_match_stale_on_insert(seq, match) ==
    IF ~ dependencies_present(match, seq)
    THEN [seq |-> seq, ret |-> FALSE]
    ELSE LET added(p) == ~ contains_match(seq.elements[p], match)
             added_new_match == \E p \in Span(match) : added(p)
         IN  [seq |-> [seq EXCEPT
                         !.consolidated = IF added_new_match THEN FALSE ELSE @,
                         !.elements = [p \in Positions |->
                             IF p \in Span(match)
                             THEN element_add_match(seq.elements[p], match)
                             ELSE seq.elements[p]],
                         !.match_by_id =
                             IF added_new_match
                             THEN [i \in DOMAIN seq.match_by_id \cup {match.id} |->
                                     IF i = match.id THEN match ELSE seq.match_by_id[i]]
                             ELSE seq.match_by_id],
              ret |-> added_new_match]

\* DataSequence.add_match: the sequence afterwards and the value returned.
\* Every position of the span is in bounds (the callers below see to it).
add_match(seq, match) ==
    IF ~ dependencies_present(match, seq)
    THEN [seq |-> seq, ret |-> FALSE]
    ELSE LET added(p) == ~ contains_match(seq.elements[p], match)
             added_new_match == \E p \in Span(match) : added(p)
         IN  [seq |-> [seq EXCEPT
                         !.consolidated = FALSE,
                         !.elements = [p \in Positions |->
                             IF p \in Span(match)
                             THEN element_add_match(seq.elements[p], match)
                             ELSE seq.elements[p]],
                         !.match_by_id =
                             IF added_new_match
                             THEN [i \in DOMAIN seq.match_by_id \cup {match.id} |->
                                     IF i = match.id THEN match ELSE seq.match_by_id[i]]
                             ELSE seq.match_by_id],
              ret |-> added_new_match]

\* list.remove(x): drops the first element equal to x
RECURSIVE list_remove(_, _)
list_remove(list, x) ==
    IF list = <<>> THEN <<>>
    ELSE IF Head(list) = x THEN Tail(list)
    ELSE <<Head(list)>> \o list_remove(Tail(list), x)

RECURSIVE list_remove_all(_, _)
list_remove_all(list, xs) ==
    IF xs = <<>> THEN list
    ELSE list_remove_all(list_remove(list, Head(xs)), Tail(xs))

\* revoke_match, the scan of one node: the ids it appends to to_revoke
node_to_revoke(matches, match_id) ==
    LET depends(m) == match_id \in Range(m.depends_on_matches)
        sel == SelectSeq(matches, depends)
    IN  [i \in 1 .. Len(sel) |-> sel[i].id]

\* revoke_match, the scan of one node: its to_remove list
node_to_remove(matches, match_id) ==
    LET hit(m) == match_id \notin Range(m.depends_on_matches) /\ m.id = match_id
    IN  SelectSeq(matches, hit)

RECURSIVE to_revoke_from(_, _, _)
to_revoke_from(seq, match_id, p) ==
    IF p \notin Positions THEN <<>>
    ELSE node_to_revoke(seq.elements[p], match_id) \o to_revoke_from(seq, match_id, p + 1)

\* mutant: the match leaves the slots and stays in the registry
revoke_scan_keeps_registry(seq, match_id) ==
    [seq EXCEPT
       !.consolidated = FALSE,
       !.elements = [p \in Positions |->
           list_remove_all(seq.elements[p], node_to_remove(seq.elements[p], match_id))]]

\* revoke_match without its cascade: lines 82-94
revoke_scan(seq, match_id) ==
    LET popped == \E p \in Positions : node_to_remove(seq.elements[p], match_id) # <<>>
    IN  [seq EXCEPT
           !.consolidated = FALSE,
           !.elements = [p \in Positions |->
               list_remove_all(seq.elements[p], node_to_remove(seq.elements[p], match_id))],
           !.match_by_id =
               IF popped
               THEN [i \in DOMAIN seq.match_by_id \ {match_id} |-> seq.match_by_id[i]]
               ELSE seq.match_by_id]

\* DataSequence.revoke_match: the sequence afterwards
RECURSIVE revoke_match(_, _, _)
RECURSIVE revoke_each(_, _)
RECURSIVE revoke_each_direct(_, _)
\* mutant: the cascade flag is ignored
revoke_match_no_cascade(seq, match_id, cascade) == revoke_scan(seq, match_id)

revoke_match(seq, match_id, cascade) ==
    IF cascade
    THEN revoke_each(revoke_scan(seq, match_id), to_revoke_from(seq, match_id, 0))
    ELSE revoke_scan(seq, match_id)

\* mutant: the direct dependents are revoked without cascading further
revoke_each_direct(seq, ids) ==
    IF ids = <<>> THEN seq
    ELSE revoke_each_direct(revoke_match(seq, Head(ids), FALSE), Tail(ids))

\* the loop of lines 97-98: revoke_match(id) for every id of to_revoke
revoke_each(seq, ids) ==
    IF ids = <<>> THEN seq
    ELSE revoke_each(revoke_match(seq, Head(ids), TRUE), Tail(ids))

\* mutant: a match is collected once for every position that holds it
RECURSIVE collect_matches_no_dedup(_, _, _, _, _)
collect_matches_no_dedup(seq, p, i, matches, match_ids) ==
    IF p \notin Positions THEN matches
    ELSE IF i > Len(seq.elements[p])
    THEN collect_matches_no_dedup(seq, p + 1, 1, matches, match_ids)
    ELSE collect_matches_no_dedup(seq, p, i + 1, Append(matches, seq.elements[p][i]),
                                  match_ids)

\* consolidate, lines 107-114: the matches in the order they are first met
RECURSIVE collect_matches(_, _, _, _, _)
collect_matches(seq, p, i, matches, match_ids) ==
    IF p \notin Positions THEN matches
    ELSE IF i > Len(seq.elements[p]) THEN collect_matches(seq, p + 1, 1, matches, match_ids)
    ELSE LET match == seq.elements[p][i]
         IN  IF match.id \notin match_ids
             THEN collect_matches(seq, p, i + 1, Append(matches, match), match_ids \cup {match.id})
             ELSE collect_matches(seq, p, i + 1, matches, match_ids)

\* consolidate, lines 116-118
RECURSIVE merge_extractions(_, _)
merge_extractions(acc, matches) ==
    IF matches = <<>> THEN acc
    ELSE merge_extractions([k \in Keys |-> acc[k] \o Head(matches).extractions[k]],
                           Tail(matches))

\* DataSequence.consolidate: the sequence afterwards
consolidate(seq) ==
    IF seq.consolidated THEN seq
    ELSE [seq EXCEPT
            !.extractions = merge_extractions(NoExtractions, collect_matches(seq, 0, 1, <<>>, {})),
            !.consolidated = TRUE]

\* DataSequence.extract: err stands for the exception raised, and then no
\* data comes back
extract(seq, pattern_node_id) ==
    IF ~ seq.consolidated
    THEN [err |-> TRUE, data |-> <<>>]
    ELSE [err |-> FALSE, data |-> seq.extractions[pattern_node_id]]

\* DataSequence.get_dependant_matches: at the first match found to depend
\* on match_id, the recursive call evaluates match_id.id on the id, a str,
\* which raises AttributeError (err); without such a match the set is empty
get_dependant_matches(seq, match_id) ==
    LET found == \E p \in Positions : \E i \in 1 .. Len(seq.elements[p]) :
                     match_id \in Range(seq.elements[p][i].depends_on_matches)
    IN  [err |-> found, deps |-> {}]

\* DataSequence.get_match_importance
get_match_importance(seq, match_id) ==
    LET r == get_dependant_matches(seq, match_id)
    IN  [err |-> r.err, ret |-> IF r.err THEN 0 ELSE Cardinality(r.deps)]

\* Match.get_all_dependencies, as the set its sorted list holds.  An id the
\* registry does not know is kept and not followed (the KeyError branch).
RECURSIVE get_all_dependencies(_, _)
get_all_dependencies(match, seq) ==
    UNION { {d} \cup (IF d \in DOMAIN seq.match_by_id
                      THEN get_all_dependencies(seq.match_by_id[d], seq)
                      ELSE {}) : d \in Range(match.depends_on_matches) }

\* clean_matches, the loop of lines 224-232 over matches_to_remove in the
\* order `ids`
RECURSIVE clean_loop(_, _, _, _)
clean_loop(seq, ids, start, end) ==
    IF ids = <<>> THEN seq
    ELSE LET match_id == Head(ids)
             rest == Tail(ids)
         IN  IF match_id \notin DOMAIN seq.match_by_id
             THEN clean_loop(seq, rest, start, end)
             ELSE LET match == seq.match_by_id[match_id]
                  IN  IF ~ (match.start_idx >= start /\ end_idx(match) <= end)
                      THEN clean_loop(seq, rest, start, end)
                      ELSE IF match.concept = "Character"
                      THEN clean_loop(seq, rest, start, end)
                      ELSE clean_loop(revoke_match(seq, match_id, TRUE), rest, start, end)

\* mutant: the dependency closure of the main match is not spared
matches_to_remove_all(seq, main_match_id) ==
    get_all_match_ids(seq) \ {main_match_id}

\* clean_matches, lines 219-221: the set the loop runs over
matches_to_remove(seq, main_match_id) ==
    LET main_match == seq.match_by_id[main_match_id]
    IN  (get_all_match_ids(seq) \ get_all_dependencies(main_match, seq)) \ {main_match.id}

\* DataSequence.clean_matches, the set matches_to_remove being iterated in
\* the order `ids`
clean_matches(seq, main_match_id, ids) ==
    LET main_match == seq.match_by_id[main_match_id]
    IN  clean_loop(seq, ids, main_match.start_idx, end_idx(main_match))

\* HierarchyProvider: the direct children of each concept that has any
HierarchyChildren ==
    [c \in {"Text", "Phrase"} |-> IF c = "Text" THEN {"Phrase"} ELSE {"Word", "Sentence"}]

\* HierarchyProvider.get_parents: every ancestor of the concept
RECURSIVE get_parents(_)
get_parents(concept) ==
    LET direct == {c \in DOMAIN HierarchyChildren : concept \in HierarchyChildren[c]}
    IN  direct \cup UNION {get_parents(c) : c \in direct}

\* drop_matches, lines 252-262: the ids collected.  hierarchy is FALSE for
\* a call without one (None)
drop_set(seq, concepts, hierarchy) ==
    UNION { { seq.elements[p][i].id :
                i \in { j \in 1 .. Len(seq.elements[p]) :
                          /\ seq.elements[p][j].start_idx = p
                          /\ \/ seq.elements[p][j].concept \in concepts
                             \/ /\ hierarchy
                                /\ get_parents(seq.elements[p][j].concept) \cap concepts # {} } }
            : p \in Positions }

\* drop_matches, lines 264-265
RECURSIVE drop_loop(_, _)
drop_loop(seq, ids) ==
    IF ids = <<>> THEN seq
    ELSE drop_loop(revoke_match(seq, Head(ids), FALSE), Tail(ids))

\* DataSequence.drop_matches, the set matches_to_remove being iterated in
\* the order `ids`; the cascade argument is the caller's
drop_matches(seq, ids, cascade) ==
    drop_loop(seq, ids)

(* ---------------------------- MatchState ------------------------------ *)

MatchAssumption(start, end, concept, weight) ==
    [sequence_start_idx |-> start, sequence_end_idx |-> end,
     assumed_concept |-> concept, weight |-> weight]

\* the fields of a MatchState that get_matches reads
MatchState(start, end, extr, assumptions, deps) ==
    [sequence_start_idx |-> start, sequence_end_idx |-> end, extractions |-> extr,
     assumptions |-> assumptions, depends_on_matches |-> deps]

Min(S) == CHOOSE x \in S : \A y \in S : x <= y

\* the sum of a sequence of numbers
RECURSIVE Sum(_)
Sum(q) == IF q = <<>> THEN 0 ELSE Head(q) + Sum(Tail(q))

\* MatchState.get_matches, the new matches taking the ids id0, id0+1, ...
\* err stands for the KeyError of line 129
get_matches(state, seq, concept, weight, id0) ==
    IF Range(state.depends_on_matches) \ DOMAIN seq.match_by_id # {}
    THEN [err |-> TRUE, matches |-> <<>>]
    ELSE LET w == Min({weight} \cup
                      {seq.match_by_id[d].weight : d \in Range(state.depends_on_matches)})
             main_match ==
                 Match(id0, concept, state.sequence_start_idx,
                       state.sequence_end_idx - state.sequence_start_idx,
                       state.depends_on_matches, state.extractions, w, FALSE)
             assumed(i) ==
                 LET asmp == state.assumptions[i]
                 IN  Match(id0 + i, asmp.assumed_concept, asmp.sequence_start_idx,
                           asmp.sequence_end_idx - asmp.sequence_start_idx,
                           <<main_match.id>>, NoExtractions, asmp.weight, TRUE)
         IN  [err |-> FALSE,
              matches |-> <<main_match>> \o
                          [i \in 1 .. Len(state.assumptions) |-> assumed(i)]]

(* ----------------- MatchState: forking and accumulating --------------- *)

\* The heap is the sequence of the list objects; the address of a list is
\* its place in it.  A MatchState object holds, for its capture map, the
\* address of the list of each key (0 for a key the defaultdict does not
\* have yet); for its structure tree, per key, nothing, a value or the
\* address of a list; and the addresses of its assumptions list and of its
\* depends_on_matches list.
ForkKeys == {"k1"}
ForkKeyOrder == CHOOSE o \in Orders(ForkKeys) : TRUE

NoStructure == [kind |-> "none", value |-> "", addr |-> 0]

\* MatchState(...) with its default_factory fields: two new lists, an empty
\* capture map and an empty structure tree
new_state(h) ==
    [heap |-> h \o << <<>>, <<>> >>,
     state |-> [extractions |-> [k \in ForkKeys |-> 0],
                structure |-> [k \in ForkKeys |-> NoStructure],
                assumptions |-> Len(h) + 1,
                depends_on_matches |-> Len(h) + 2]]

\* the addresses in the list, without the zeros
live(addrs) ==
    LET isaddr(a) == a # 0
    IN  SelectSeq(addrs, isaddr)

\* the heap after every list of src has been copied, in order, and where
\* the copy of the list at address a is
copied(h, src) == h \o [i \in 1 .. Len(src) |-> h[src[i]]]
copy_of(h, src, a) == IF a = 0 THEN 0 ELSE Len(h) + (CHOOSE i \in 1 .. Len(src) : src[i] = a)

\* mutant: the capture map is copied with copy.copy, its lists are shared
get_next_shallow(h, st) ==
    LET src == <<st.assumptions, st.depends_on_matches>> \o
               live([i \in 1 .. Len(ForkKeyOrder) |-> st.structure[ForkKeyOrder[i]].addr])
    IN  [heap |-> copied(h, src),
         state |-> [extractions |-> st.extractions,
                    assumptions |-> copy_of(h, src, st.assumptions),
                    depends_on_matches |-> copy_of(h, src, st.depends_on_matches),
                    structure |-> [k \in ForkKeys |->
                        [st.structure[k] EXCEPT !.addr = copy_of(h, src, @)]]]]

\* MatchState.get_next: copy.deepcopy of the capture map and of the
\* structure tree (every list in them is copied), copy.copy of the two lists
get_next(h, st) ==
    LET src == live([i \in 1 .. Len(ForkKeyOrder) |-> st.extractions[ForkKeyOrder[i]]]) \o
               <<st.assumptions, st.depends_on_matches>> \o
               live([i \in 1 .. Len(ForkKeyOrder) |-> st.structure[ForkKeyOrder[i]].addr])
    IN  [heap |-> copied(h, src),
         state |-> [extractions |-> [k \in ForkKeys |-> copy_of(h, src, st.extractions[k])],
                    assumptions |-> copy_of(h, src, st.assumptions),
                    depends_on_matches |-> copy_of(h, src, st.depends_on_matches),
                    structure |-> [k \in ForkKeys |->
                        [st.structure[k] EXCEPT !.addr = copy_of(h, src, @)]]]]

\* list.append on the list at address a
list_append(h, a, value) == [h EXCEPT ![a] = Append(@, value)]

\* MatchState.add_data
add_data(h, st, key, value, many) ==
    LET cur == st.structure[key]
        aslist(a) == [kind |-> "list", value |-> "", addr |-> a]
    IN  IF cur.kind = "list"
        THEN [heap |-> list_append(h, cur.addr, value), state |-> st]
        ELSE IF cur.kind = "value"
        THEN [heap |-> Append(h, <<cur.value, value>>),
              state |-> [st EXCEPT !.structure[key] = aslist(Len(h) + 1)]]
        ELSE IF many
        THEN [heap |-> Append(h, <<value>>),
              state |-> [st EXCEPT !.structure[key] = aslist(Len(h) + 1)]]
        ELSE [heap |-> h,
              state |-> [st EXCEPT !.structure[key] =
                            [kind |-> "value", value |-> value, addr |-> 0]]]

\* state.extractions[key].append(value), the map being a defaultdict(list)
append_capture(h, st, key, value) ==
    IF st.extractions[key] = 0
    THEN [heap |-> Append(h, <<value>>),
          state |-> [st EXCEPT !.extractions[key] = Len(h) + 1]]
    ELSE [heap |-> list_append(h, st.extractions[key], value), state |-> st]

\* state.depends_on_matches.append(match_id)
append_dependency(h, st, match_id) ==
    [heap |-> list_append(h, st.depends_on_matches, match_id), state |-> st]

\* state.assumptions.append(assumption)
append_assumption(h, st, assumption) ==
    [heap |-> list_append(h, st.assumptions, assumption), state |-> st]

\* what a MatchState holds, its lists read off the heap
View(h, st) ==
    [extractions |-> [k \in ForkKeys |->
        IF st.extractions[k] = 0 THEN [present |-> FALSE, values |-> <<>>]
        ELSE [present |-> TRUE, values |-> h[st.extractions[k]]]],
     structure |-> [k \in ForkKeys |->
        IF st.structure[k].kind = "list"
        THEN [kind |-> "list", value |-> "", values |-> h[st.structure[k].addr]]
        ELSE [kind |-> st.structure[k].kind, value |-> st.structure[k].value,
              values |-> <<>>]],
     assumptions |-> h[st.assumptions],
     depends_on_matches |-> h[st.depends_on_matches]]

(* ------------------------------ Pattern ------------------------------- *)

\* A Pattern, as far as the Extractor sees one: the concept of its matches,
\* the concepts of the matches it composes in order, the concept it has to
\* be inside of ("" for none), the concepts it assumes over its span, and
\* the weight it asks for.
Pattern(concept, parts, inside, assumed, weight) ==
    [concept |-> concept, parts |-> parts, inside |-> inside,
     assumed |-> assumed, weight |-> weight]

\* a pattern part stands for its concept and for the descendants of it
accepts(part, concept) == part = concept \/ part \in get_parents(concept)

\* Pattern.match, the exploration: from the cursor, every way to read the
\* parts k, k+1, ... off matches that start at the cursor, in slot order;
\* each completion is the end index reached and the ids read
RECURSIVE walk(_, _, _, _, _, _)
walk(seq, parts, cursor, deps, k, i) ==
    IF k > Len(parts) THEN << [end |-> cursor, deps |-> deps] >>
    ELSE IF cursor \notin Positions THEN <<>>
    ELSE IF i > Len(seq.elements[cursor]) THEN <<>>
    ELSE LET m == seq.elements[cursor][i]
             here == IF m.start_idx = cursor /\ accepts(parts[k], m.concept)
                     THEN walk(seq, parts, cursor + m.size, Append(deps, m.id), k + 1, 1)
                     ELSE <<>>
         IN  here \o walk(seq, parts, cursor, deps, k, i + 1)

\* Pattern.match, the results: every completion is finalized by
\* MatchState.get_matches, the ids being handed out in order
RECURSIVE finalize_all(_, _, _, _, _)
finalize_all(pattern, seq, start_idx, completions, id0) ==
    IF completions = <<>> THEN <<>>
    ELSE LET c == Head(completions)
             state == MatchState(start_idx, c.end, NoExtractions,
                                 [j \in 1 .. Len(pattern.assumed) |->
                                     MatchAssumption(start_idx, c.end, pattern.assumed[j], 2)],
                                 c.deps)
             r == get_matches(state, seq, pattern.concept, pattern.weight, id0)
         IN  r.matches \o
             finalize_all(pattern, seq, start_idx, Tail(completions), id0 + Len(r.matches))

\* Pattern.match(seq, state, hierarchy) for a fresh state anchored at start_idx
pattern_match(pattern, seq, start_idx, id0) ==
    finalize_all(pattern, seq, start_idx, walk(seq, pattern.parts, start_idx, <<>>, 1, 1), id0)

(* ----------------------------- Extractor ------------------------------ *)

\* HierarchyProvider.get_children: the direct children
get_children(concept) ==
    IF concept \in DOMAIN HierarchyChildren THEN HierarchyChildren[concept] ELSE {}

check_inside_start_idx(seq, idx, inside_concept) ==
    \E i \in 1 .. Len(seq.elements[idx]) :
        LET match == seq.elements[idx][i]
        IN  \/ inside_concept = match.concept
            \/ inside_concept \in get_parents(match.concept)

\* mutant: a match of the concept that covers the span is enough
check_match_is_inside_covering(seq, match, inside_concept) ==
    \E i \in 1 .. Len(seq.elements[match.start_idx]) :
        LET other == seq.elements[match.start_idx][i]
        IN  /\ \/ inside_concept = other.concept
               \/ inside_concept \in get_parents(other.concept)
            /\ other.start_idx <= match.start_idx
            /\ end_idx(other) >= end_idx(match)

check_match_is_inside(seq, match, inside_concept) ==
    \E i \in 1 .. Len(seq.elements[match.start_idx]) :
        LET other == seq.elements[match.start_idx][i]
        IN  /\ \/ inside_concept = other.concept
               \/ inside_concept \in get_parents(other.concept)
            /\ other.start_idx = match.start_idx
            /\ other.size = match.size

\* apply_once, lines 47-51: the matches of one invocation are filtered and
\* submitted in order.  The log keeps, for every match, the ids registered
\* when its turn came, whether it was submitted and what add_match returned.
RECURSIVE submit_matches(_, _, _)
submit_matches(seq, matches, inside) ==
    IF matches = <<>> THEN [seq |-> seq, ret |-> FALSE, log |-> <<>>]
    ELSE LET match == Head(matches)
             skip == inside # "" /\ ~ check_match_is_inside(seq, match, inside)
             first == IF skip THEN [seq |-> seq, ret |-> FALSE] ELSE add_match(seq, match)
             rest == submit_matches(first.seq, Tail(matches), inside)
             entry == [match |-> match, known |-> DOMAIN seq.match_by_id,
                       submitted |-> ~ skip, ret |-> first.ret]
         IN  [seq |-> rest.seq, ret |-> first.ret \/ rest.ret,
              log |-> <<entry>> \o rest.log]

\* the id after the last one a list of submissions put in the index, or
\* id0 if none went in (an id of a refused match is never seen again)
next_free_id(id0, log) ==
    LET stored == {log[i].match.id : i \in {j \in 1 .. Len(log) : log[j].ret}}
    IN  IF stored = {} THEN id0 ELSE 1 + (CHOOSE x \in stored : \A y \in stored : y <= x)

\* apply_once, the loops of lines 35-51 from (start_idx, pattern k) on; acc
\* is the sequence so far, had_new_matches, the next fresh id and the log of
\* the invocations.  No position is disabled (no disable_elements call is
\* made on these sequences).
RECURSIVE apply_loop(_, _, _, _)
apply_loop(ex, acc, start_idx, k) ==
    IF start_idx \notin Positions THEN acc
    ELSE IF k > Len(ex.patterns) THEN apply_loop(ex, acc, start_idx + 1, 1)
    ELSE LET pattern == ex.patterns[k]
             called == [start_idx |-> start_idx, pattern |-> k,
                        known |-> DOMAIN acc.seq.match_by_id]
         IN  IF pattern.inside # "" /\
                ~ check_inside_start_idx(acc.seq, start_idx, pattern.inside)
             THEN apply_loop(ex,
                      [acc EXCEPT !.log = Append(@, [call |-> called, invoked |-> FALSE,
                                                      results |-> <<>>])],
                      start_idx, k + 1)
             ELSE LET matches == pattern_match(pattern, acc.seq, start_idx, acc.nextId)
                      r == submit_matches(acc.seq, matches, pattern.inside)
                  IN  apply_loop(ex,
                          [seq |-> r.seq, ret |-> acc.ret \/ r.ret,
                           nextId |-> next_free_id(acc.nextId, r.log),
                           log |-> Append(acc.log, [call |-> called, invoked |-> TRUE,
                                                    results |-> r.log])],
                          start_idx, k + 1)

\* Extractor.apply_once: the sequence afterwards and had_new_matches
apply_once(ex, seq, id0) ==
    apply_loop(ex, [seq |-> seq, ret |-> FALSE, nextId |-> id0, log |-> <<>>], 0, 1)

\* Extractor.apply_single_concepts: the children of every single concept
\* are looked up and no match is touched (the method stops at its TODO)
apply_single_concepts(ex, seq) ==
    LET children == [i \in 1 .. Len(ex.single_concepts) |-> get_children(ex.single_concepts[i])]
    IN  seq

\* apply_single_concepts reaches breakpoint() (line 94) once for every
\* single concept; what the debugger does is up to the environment
hits_breakpoint(ex) == ex.single_concepts # <<>>

(* ------------------------------ history ------------------------------- *)

\* the shape of `last`; every call fills in the fields it has
NoCall ==
    [op |-> "from_string", ret |-> FALSE, id |-> 0, cascade |-> FALSE,
     missing |-> FALSE, equiv |-> FALSE, sensitive |-> FALSE, sameset |-> FALSE,
     removed |-> 0,
     concepts |-> {}, hierarchy |-> FALSE,
     key |-> "k1", err |-> FALSE, data |-> <<>>, count |-> 0, ids |-> {}]

\* no get_matches call yet
NotFinalized ==
    [called |-> FALSE, weight |-> 0,
     state |-> MatchState(0, 0, NoExtractions, <<>>, <<>>),
     err |-> FALSE, matches |-> <<>>]

\* no pass of the running apply yet
NoPass == [pass |-> 0, calls |-> <<>>]

\* no Extractor.apply is running
NoExtractor == [patterns |-> <<>>, single_concepts |-> <<>>]

Registered == DOMAIN match_by_id
RegisteredMatches == {match_by_id[i] : i \in Registered}

(* --------------------------- initial state ---------------------------- *)

\* DataSequence.from_string and __post_init__
Init ==
    /\ elements = [p \in Positions |->
                     << Match(p + 1, "Character", p, 1, <<>>, NoExtractions, 2, FALSE) >>]
    /\ match_by_id = [i \in 1 .. SeqLen |->
                        Match(i, "Character", i - 1, 1, <<>>, NoExtractions, 2, FALSE)]
    /\ extractions = NoExtractions
    /\ consolidated = FALSE
    /\ nextId = SeqLen + 1
    /\ finalized = NotFinalized
    /\ mutated = TRUE
    /\ last = NoCall
    /\ pc = "idle"
    /\ extractor = NoExtractor
    /\ passlog = NoPass
    /\ states = <<>>
    /\ heap = <<>>

Install(seq) ==
    /\ elements' = seq.elements
    /\ match_by_id' = seq.match_by_id
    /\ extractions' = seq.extractions
    /\ consolidated' = seq.consolidated

\* how many registered matches a call took away
Removed(seq) == Cardinality(Registered \ DOMAIN seq.match_by_id)

(* ------------------------------ actions ------------------------------- *)

\* the in-bounds spans, as <<start_idx, size>>
Spans == {sp \in Positions \X (1 .. SeqLen) : sp[1] + sp[2] <= SeqLen}

\* the matches a caller may hand to add_match: a fresh id, an in-bounds
\* span, dependencies among the ids handed out so far
NewMatchesOver(concepts, payloads, maxDeps, ids) ==
    { Match(nextId, c, sp[1], sp[2], d, pl.extractions, pl.weight, FALSE) :
        c \in concepts,
        sp \in Spans,
        d \in SeqsUpTo(ids, maxDeps),
        pl \in payloads }

\* the new matches whose dependencies are ids handed out before
NewMatches(concepts, payloads, maxDeps) ==
    NewMatchesOver(concepts, payloads, maxDeps, 1 .. (nextId - 1))

\* no call interleaves with a pattern's matches being submitted
Idle == ~ finalized.called /\ pc = "idle"

\* a match that add_match refuses is dropped with its id, so the counter
\* moves only when the match is stored
CallAddMatchOf(matches) ==
    /\ Idle
    /\ nextId <= SeqLen + MaxNew
    /\ \E match \in matches :
         LET r == add_match(Self, match)
         IN  /\ Install(r.seq)
             /\ nextId' = IF r.ret THEN nextId + 1 ELSE nextId
             /\ mutated' = (mutated \/ Range(match.depends_on_matches) \subseteq Registered)
             /\ last' = [NoCall EXCEPT
                           !.op = "add_match", !.ret = r.ret,
                           !.id = IF r.ret THEN match.id ELSE 0,
                           !.missing = (Range(match.depends_on_matches) \ Registered # {}),
                           !.equiv = (\E s \in RegisteredMatches :
                                         /\ s.concept = match.concept
                                         /\ s.start_idx = match.start_idx
                                         /\ s.size = match.size),
                           !.sensitive = (match.concept \in DependencySensitive),
                           !.sameset =
                               ( /\ match.concept \in DependencySensitive
                                 /\ Range(match.depends_on_matches) \subseteq Registered
                                 /\ \E s \in RegisteredMatches :
                                      /\ s.concept = match.concept
                                      /\ s.start_idx = match.start_idx
                                      /\ s.size = match.size
                                      /\ Range(s.depends_on_matches) =
                                         Range(match.depends_on_matches) )]
    /\ finalized' = NotFinalized
    /\ UNCHANGED <<extractorVars, forkVars>>

CallAddMatch(concepts, payloads, maxDeps) ==
    CallAddMatchOf(NewMatches(concepts, payloads, maxDeps))

CallRevokeMatch(cascades) ==
    /\ Idle
    /\ \E match_id \in 1 .. (nextId - 1), cascade \in cascades :
        LET seq == revoke_match(Self, match_id, cascade)
        IN  /\ Install(seq)
            /\ mutated' = TRUE
            /\ last' = [NoCall EXCEPT !.op = "revoke_match", !.id = match_id,
                                      !.cascade = cascade, !.removed = Removed(seq)]
            /\ finalized' = NotFinalized
            /\ UNCHANGED <<nextId, extractorVars, forkVars>>

CallConsolidate ==
    /\ Install(consolidate(Self))
    /\ mutated' = FALSE
    /\ last' = [NoCall EXCEPT !.op = "consolidate"]
    /\ finalized' = NotFinalized
    /\ UNCHANGED <<nextId, extractorVars, forkVars>>

CallExtract ==
    \E key \in Keys :
        LET r == extract(Self, key)
        IN  /\ last' = [NoCall EXCEPT !.op = "extract", !.key = key,
                                      !.err = r.err, !.data = r.data]
            /\ finalized' = NotFinalized
            /\ UNCHANGED <<elements, match_by_id, extractions, consolidated, nextId,
                           mutated, extractorVars, forkVars>>

\* clean_matches(main_match_id) raises KeyError for an id the registry does
\* not hold; the calls here name a registered match
CallCleanMatches ==
    \E main_match_id \in Registered :
      \E ids \in Orders(matches_to_remove(Self, main_match_id)) :
        LET seq == clean_matches(Self, main_match_id, ids)
        IN  /\ Install(seq)
            /\ mutated' = (mutated \/ seq # Self)
            /\ last' = [NoCall EXCEPT !.op = "clean_matches", !.id = main_match_id,
                                      !.removed = Removed(seq)]
            /\ finalized' = NotFinalized
            /\ UNCHANGED <<nextId, extractorVars, forkVars>>

\* the concept lists handed to drop_matches
DropConcepts == {{"Word"}, {"Text"}}

CallDropMatches ==
    \E concepts \in DropConcepts, hierarchy \in BOOLEAN, cascade \in BOOLEAN :
      \E ids \in Orders(drop_set(Self, concepts, hierarchy)) :
        LET seq == drop_matches(Self, ids, cascade)
        IN  /\ Install(seq)
            /\ mutated' = (mutated \/ ids # <<>>)
            /\ last' = [NoCall EXCEPT !.op = "drop_matches", !.concepts = concepts,
                                      !.hierarchy = hierarchy, !.cascade = cascade,
                                      !.removed = Removed(seq)]
            /\ finalized' = NotFinalized
            /\ UNCHANGED <<nextId, extractorVars, forkVars>>

\* get_all_dependencies of a registered match; the method raises nothing
\* (its KeyError is caught at line 53)
CallGetAllDependencies ==
    /\ Idle
    /\ \E match_id \in Registered :
         last' = [NoCall EXCEPT !.op = "get_all_dependencies", !.id = match_id,
                               !.err = FALSE,
                               !.ids = get_all_dependencies(match_by_id[match_id], Self)]
    /\ finalized' = NotFinalized
    /\ UNCHANGED <<elements, match_by_id, extractions, consolidated, nextId, mutated,
                   extractorVars, forkVars>>

\* get_match_importance of a registered match
CallGetMatchImportance ==
    /\ Idle
    /\ \E match_id \in Registered :
         LET r == get_match_importance(Self, match_id)
         IN  last' = [NoCall EXCEPT !.op = "get_match_importance", !.id = match_id,
                                   !.err = r.err, !.count = r.ret]
    /\ finalized' = NotFinalized
    /\ UNCHANGED <<elements, match_by_id, extractions, consolidated, nextId, mutated,
                   extractorVars, forkVars>>

\* the derivation states handed to get_matches
Weights == {1, 2}

AssumptionInputs ==
    { MatchAssumption(sp[1], sp[1] + sp[2], "Sentence", w) : sp \in Spans, w \in Weights }

MatchStates ==
    { MatchState(sp[1], sp[1] + sp[2], e, a, d) :
        sp \in Spans,
        e \in {NoExtractions},
        a \in SeqsUpTo(AssumptionInputs, MaxAssumptions),
        d \in SeqsUpTo(1 .. (nextId - 1), MaxDeps) }

\* Pattern.match finalizing one derivation state (the pattern itself is not
\* part of the sources; it hands back what get_matches returns)
CallGetMatches ==
    /\ Idle
    /\ \E state \in MatchStates, weight \in Weights :
        LET r == get_matches(state, Self, "Word", weight, nextId)
        IN  /\ nextId + Len(state.assumptions) <= SeqLen + MaxNew
            /\ finalized' = [called |-> TRUE, weight |-> weight, state |-> state,
                             err |-> r.err, matches |-> r.matches]
            /\ last' = [NoCall EXCEPT !.op = "get_matches"]
            /\ UNCHANGED <<elements, match_by_id, extractions, consolidated, nextId,
                           mutated, extractorVars, forkVars>>

\* Extractor.apply_once, lines 47-51, for a pattern without `inside`: every
\* match of the list goes to add_match
RECURSIVE submit(_, _)
submit(seq, matches) ==
    IF matches = <<>> THEN [seq |-> seq, ret |-> FALSE]
    ELSE LET first == add_match(seq, Head(matches))
             rest == submit(first.seq, Tail(matches))
         IN  [seq |-> rest.seq, ret |-> first.ret \/ rest.ret]

\* the matches get_matches returned are submitted; after a KeyError there
\* are none
CallSubmit ==
    /\ finalized.called
    /\ LET r == submit(Self, finalized.matches)
       IN  /\ Install(r.seq)
           /\ nextId' = nextId + Len(finalized.matches)
           /\ mutated' = (mutated \/ ~ finalized.err)
           /\ last' = [NoCall EXCEPT !.op = "apply_once", !.ret = r.ret]
           /\ finalized' = NotFinalized
           /\ UNCHANGED <<extractorVars, forkVars>>

(* ----------------------- Extractor.apply, actions --------------------- *)

\* the patterns of the extractors: a word over two characters, a word over
\* one character that assumes a noun, a word over any phrase, a sentence
\* over a word, a name over a character inside a phrase
PairWord == Pattern("Word", <<"Character", "Character">>, "", <<>>, 2)
UnitWord == Pattern("Word", <<"Character">>, "", <<"Noun">>, 1)
Rewrap == Pattern("Word", <<"Phrase">>, "", <<>>, 2)
WordSentence == Pattern("Sentence", <<"Word">>, "", <<>>, 2)
InsideName == Pattern("Name", <<"Character">>, "Phrase", <<"Noun">>, 2)
\* and a name over two characters inside a word
InsidePair == Pattern("Name", <<"Character", "Character">>, "Word", <<>>, 2)

Catalogue == {PairWord, UnitWord, Rewrap, WordSentence, InsideName}

\* the patterns whose concepts are not dependency-sensitive
PlainCatalogue == {PairWord, UnitWord, Rewrap, InsideName}

\* the patterns with an `inside`, and one that makes words
InsideCatalogue == {InsideName, InsidePair, UnitWord}

\* the extractors: one pattern or two different ones, with or without
\* 'Phrase' declared a single concept
ExtractorsOver(catalogue) ==
    { [patterns |-> ps, single_concepts |-> sc] :
        ps \in {<<a>> : a \in catalogue} \cup
               {ab \in catalogue \X catalogue : ab[1] # ab[2]},
        sc \in {<<>>, <<"Phrase">>} }

\* the concepts of the matches an extractor can produce
ProducedConcepts(ex) ==
    UNION { {ex.patterns[k].concept} \cup Range(ex.patterns[k].assumed) :
                k \in 1 .. Len(ex.patterns) }

\* the ids a run of apply needs at most when none of its concepts is
\* dependency-sensitive: one for each (concept, start, size)
Room(ex) == Cardinality(ProducedConcepts(ex)) * Cardinality(Spans)

\* no id beyond this one is handed out by a run of apply: room for MaxRuns
\* runs of the extractor that needs most
IdCap ==
    LET rooms == {Room(ex) : ex \in ExtractorsOver(Catalogue)}
    IN  SeqLen + MaxRuns * (CHOOSE x \in rooms : \A y \in rooms : y <= x)

\* Extractor(patterns, hierarchy, single_concepts).apply(seq) is called
ApplyEnter(catalogue) ==
    /\ Idle
    /\ \E ex \in ExtractorsOver(catalogue) :
         /\ nextId + Room(ex) <= IdCap + 1
         /\ extractor' = ex
    /\ pc' = "loop"
    /\ passlog' = NoPass
    /\ last' = [NoCall EXCEPT !.op = "apply"]
    /\ finalized' = NotFinalized
    /\ UNCHANGED <<elements, match_by_id, extractions, consolidated, nextId, mutated,
                   forkVars>>

\* one turn of the while loop of apply, line 75: a pass, and the loop goes
\* on if the pass reports a new match
ApplyOnce ==
    /\ pc = "loop"
    /\ LET r == apply_once(extractor, Self, nextId)
       IN  /\ r.nextId <= IdCap + 1
           /\ Install(r.seq)
           /\ nextId' = r.nextId
           /\ passlog' = [pass |-> passlog.pass + 1, calls |-> r.log]
           /\ mutated' = (mutated \/ \E i \in 1 .. Len(r.log) :
                                        \E j \in 1 .. Len(r.log[i].results) :
                                            r.log[i].results[j].submitted)
           /\ last' = [NoCall EXCEPT !.op = "apply_once", !.ret = r.ret]
           /\ pc' = IF r.ret THEN "loop" ELSE "resolve"
    /\ finalized' = NotFinalized
    /\ UNCHANGED <<extractor, forkVars>>

\* apply, lines 78-79: apply_single_concepts, then consolidate.  At the
\* breakpoint the debugger either resumes the call or ends it with BdbQuit,
\* and then consolidate is not reached.
ApplyFinish ==
    /\ pc = "resolve"
    /\ \E quit \in (IF hits_breakpoint(extractor) THEN BOOLEAN ELSE {FALSE}) :
         LET seq == apply_single_concepts(extractor, Self)
         IN  /\ Install(IF quit THEN seq ELSE consolidate(seq))
             /\ mutated' = (quit /\ mutated)
             /\ last' = [NoCall EXCEPT !.op = "apply", !.ret = TRUE, !.err = quit,
                                       !.concepts = Range(extractor.single_concepts)]
    /\ pc' = "idle"
    /\ extractor' = NoExtractor
    /\ finalized' = NotFinalized
    /\ UNCHANGED <<nextId, passlog, forkVars>>

(* --------------------------- specifications --------------------------- *)

\* the sequence index under add_match, revoke_match, consolidate, extract
Next ==
    \/ CallAddMatch({"Word", "Sentence"}, Payloads, ShortDeps)
    \/ CallRevokeMatch(BOOLEAN)
    \/ CallConsolidate
    \/ CallExtract

Spec == Init /\ [][Next]_vars

\* add_match and revoke_match alone, with longer dependency lists
NextIndex ==
    \/ CallAddMatch(Concepts, {PlainPayload}, MaxDeps)
    \/ CallRevokeMatch(BOOLEAN)

SpecIndex == Init /\ [][NextIndex]_vars

\* as SpecIndex, every revoke_match cascading
NextCascade ==
    \/ CallAddMatch(Concepts, {PlainPayload}, MaxDeps)
    \/ CallRevokeMatch({TRUE})

SpecCascade == Init /\ [][NextCascade]_vars

\* the sequence index under add_match, revoke_match and clean_matches
NextClean ==
    \/ CallAddMatch(Concepts, {PlainPayload}, ShortDeps)
    \/ CallRevokeMatch(BOOLEAN)
    \/ CallCleanMatches

SpecClean == Init /\ [][NextClean]_vars

\* the sequence index under add_match, revoke_match and drop_matches
NextDrop ==
    \/ CallAddMatch(Concepts, {PlainPayload}, ShortDeps)
    \/ CallRevokeMatch(BOOLEAN)
    \/ CallDropMatches

SpecDrop == Init /\ [][NextDrop]_vars

\* the importance of the matches of an index built by add_match
NextImportance ==
    \/ CallAddMatch({"Word", "Sentence"}, {PlainPayload}, ShortDeps)
    \/ CallGetMatchImportance

SpecImportance == Init /\ [][NextImportance]_vars

\* derivation states finalized against an index of weighted matches
NextDerive ==
    \/ CallGetMatches
    \/ CallSubmit
    \/ CallRevokeMatch({FALSE})

SpecDerive == Init /\ [][NextDerive]_vars

\* the same, with the dependency closures of the registered matches looked up
NextLookup ==
    \/ CallGetMatches
    \/ CallSubmit
    \/ CallRevokeMatch({FALSE})
    \/ CallGetAllDependencies

SpecLookup == Init /\ [][NextLookup]_vars

\* add_match of matches that may name any id as a dependency, their own and
\* the next one to be handed out included, with revoke_match in both modes
\* and get_all_dependencies
NextAcyclic ==
    \/ CallAddMatchOf(NewMatchesOver({"Word"}, {PlainPayload}, MaxDeps, 1 .. (nextId + 1)))
    \/ CallRevokeMatch(BOOLEAN)
    \/ CallGetAllDependencies

SpecAcyclic == Init /\ [][NextAcyclic]_vars

(* ------------------------- forked MatchStates ------------------------- *)

\* the length of the list at the address, 0 for no list
held(a) == IF a = 0 THEN 0 ELSE Len(heap[a])

\* the number of entries the state holds, and all states together
entries(st) ==
    held(st.assumptions) + held(st.depends_on_matches)
    + Sum([i \in 1 .. Len(ForkKeyOrder) |->
             LET key == ForkKeyOrder[i]
             IN  held(st.extractions[key]) + held(st.structure[key].addr)
                 + (IF st.structure[key].kind = "value" THEN 1 ELSE 0)])
Held == Sum([t \in 1 .. Len(states) |-> entries(states[t])])

\* a MatchState operation acted on the state last.id (0 for the constructor)
Forked(op, s, r) ==
    /\ heap' = r.heap
    /\ last' = [NoCall EXCEPT !.op = op, !.id = s]
    /\ finalized' = NotFinalized
    /\ UNCHANGED <<elements, match_by_id, extractions, consolidated, nextId, mutated,
                   extractorVars>>

\* Extractor.apply_once creating the state a pattern starts from
ForkBegin ==
    /\ Idle
    /\ states = <<>>
    /\ LET r == new_state(heap)
       IN  /\ states' = <<r.state>>
           /\ Forked("MatchState", 0, r)

\* child = state.get_next(...)
ForkNext ==
    /\ Idle
    /\ Len(states) < MaxStates
    /\ \E s \in 1 .. Len(states) :
         /\ Held + entries(states[s]) <= MaxHeld
         /\ LET r == get_next(heap, states[s])
            IN  /\ states' = Append(states, r.state)
                /\ Forked("get_next", s, r)

\* state.add_data(key, value, many)
ForkAddData ==
    /\ Idle
    /\ Held < MaxHeld
    /\ \E s \in 1 .. Len(states), key \in ForkKeys, many \in BOOLEAN :
         /\ held(states[s].structure[key].addr) < MaxListLen
         /\ LET r == add_data(heap, states[s], key, "a", many)
            IN  /\ states' = [states EXCEPT ![s] = r.state]
                /\ Forked("add_data", s, r)

\* a pattern appending to the capture map, to the dependency list or to the
\* assumption list of a state
ForkAppend ==
    /\ Idle
    /\ Held < MaxHeld
    /\ \E s \in 1 .. Len(states) :
         \/ \E key \in ForkKeys :
              /\ held(states[s].extractions[key]) < MaxListLen
              /\ LET r == append_capture(heap, states[s], key, "a")
                 IN  /\ states' = [states EXCEPT ![s] = r.state]
                     /\ Forked("extractions.append", s, r)
         \/ /\ held(states[s].depends_on_matches) < MaxListLen
            /\ LET r == append_dependency(heap, states[s], 1)
               IN  /\ states' = [states EXCEPT ![s] = r.state]
                   /\ Forked("depends_on_matches.append", s, r)
         \/ /\ held(states[s].assumptions) < MaxListLen
            /\ LET r == append_assumption(heap, states[s], MatchAssumption(0, 1, "Noun", 2))
               IN  /\ states' = [states EXCEPT ![s] = r.state]
                   /\ Forked("assumptions.append", s, r)

NextFork ==
    \/ ForkBegin
    \/ ForkNext
    \/ ForkAddData
    \/ ForkAppend

SpecFork == Init /\ [][NextFork]_vars

\* runs of Extractor.apply, one after the other
NextApply ==
    \/ ApplyEnter(Catalogue)
    \/ ApplyOnce
    \/ ApplyFinish

SpecApply == Init /\ [][NextApply]_vars

\* runs of Extractor.apply whose patterns produce no dependency-sensitive
\* concept
NextFixpoint ==
    \/ ApplyEnter(PlainCatalogue)
    \/ ApplyOnce
    \/ ApplyFinish

SpecFixpoint == Init /\ [][NextFixpoint]_vars

\* runs of Extractor.apply with patterns that declare an `inside`, on an
\* index that holds words beside the characters
NextInside ==
    \/ CallAddMatch({"Word"}, {PlainPayload}, ShortDeps)
    \/ ApplyEnter(InsideCatalogue)
    \/ ApplyOnce
    \/ ApplyFinish

SpecInside == Init /\ [][NextInside]_vars

(* ------------------------------- claims ------------------------------- *)

\* how often the match id sits in the slot of position p
Occurrences(p, id) ==
    Cardinality({i \in 1 .. Len(elements[p]) : elements[p][i].id = id})

\* the ids found in the position slots
SlotIds == UNION { {elements[p][i].id : i \in 1 .. Len(elements[p])} : p \in Positions }

\* C1: the registry holds exactly the ids found in the slots, and every
\* registered match sits, once and as registered, in each position of its
\* span and in no other position.
C1_RegistryMatchesSlots ==
    /\ Registered = SlotIds
    /\ \A id \in Registered, p \in Positions :
         IF p \in Span(match_by_id[id])
         THEN /\ Occurrences(p, id) = 1
              /\ \E i \in 1 .. Len(elements[p]) : elements[p][i] = match_by_id[id]
         ELSE Occurrences(p, id) = 0

\* a match over two positions is registered after a cascading revoke_match
\* took more than one match away
C1_Witness ==
    /\ last.op = "revoke_match" /\ last.cascade /\ last.removed >= 2
    /\ \E m \in RegisteredMatches : m.size = 2 /\ m.depends_on_matches # <<>>

\* C2: add_match of a match with an unregistered dependency returns false
\* and leaves the registry, every slot and the consolidated flag as they were.
C2_MissingDependencyRejected ==
    [][ (last'.op = "add_match" /\ last'.missing)
        => /\ ~ last'.ret
           /\ match_by_id' = match_by_id
           /\ elements' = elements
           /\ consolidated' = consolidated ]_vars

\* such an add_match was refused on a consolidated index, which stayed so
C2_Witness ==
    last.op = "add_match" /\ last.missing /\ ~ last.ret /\ consolidated

\* C3: for a concept that is not dependency-sensitive, add_match of a match
\* whose concept, start index and size are those of a stored match returns
\* false and leaves the registry and every slot as they were.
C3_RepeatedAddRejected ==
    [][ (last'.op = "add_match" /\ ~ last'.sensitive /\ last'.equiv)
        => /\ ~ last'.ret
           /\ match_by_id' = match_by_id
           /\ elements' = elements ]_vars

\* a repeated add whose dependencies were all registered was refused
C3_Witness ==
    /\ last.op = "add_match" /\ ~ last.sensitive /\ last.equiv
    /\ ~ last.missing /\ ~ last.ret
    /\ \E m \in RegisteredMatches : m.concept = "Word"

\* the ids in S and every registered match that depends on one of them,
\* directly or through further registered matches
RECURSIVE WithDependents(_)
WithDependents(S) ==
    LET more == {m.id : m \in {r \in RegisteredMatches :
                                  Range(r.depends_on_matches) \cap S # {}}}
    IN  IF more \subseteq S THEN S ELSE WithDependents(S \cup more)

\* the slot of position p without the matches whose id is in gone
SlotWithout(p, gone) ==
    LET stays(m) == m.id \notin gone
    IN  SelectSeq(elements[p], stays)

\* C4: revoke_match(id, cascade) takes away the match id and, exactly when
\* cascade is true, every match depending on id directly or transitively;
\* every other match stays registered, unchanged, in every slot it was in.
C4_RevokeRemovesExactly ==
    [][ last'.op = "revoke_match"
        => LET gone == IF last'.cascade THEN WithDependents({last'.id}) ELSE {last'.id}
           IN  /\ DOMAIN match_by_id' = Registered \ gone
               /\ \A i \in Registered \ gone : match_by_id'[i] = match_by_id[i]
               /\ \A p \in Positions : elements'[p] = SlotWithout(p, gone) ]_vars

\* a cascading revoke_match took away the match, a dependent and a
\* dependent of that one
C4_Witness ==
    last.op = "revoke_match" /\ last.cascade /\ last.removed >= 3

\* no registered match lists an id the registry does not hold
NoDangling ==
    \A m \in RegisteredMatches : Range(m.depends_on_matches) \subseteq Registered

\* C5: with add_match and cascading revoke_match alone, every id in the
\* depends_on_matches of a registered match is registered.
C5_NoDanglingUnderCascade == NoDangling

\* a cascading revoke_match took a match and its dependent away, and a
\* match with dependencies is still registered
C5_Witness ==
    /\ last.op = "revoke_match" /\ last.removed = 2
    /\ \E m \in RegisteredMatches : m.depends_on_matches # <<>>

\* C6: extract fails, and hands back no data, whenever a revoke_match or an
\* add_match that passed the dependency check came after the last
\* consolidate, or no consolidate ran yet.
C6_ExtractFailsWhenStale ==
    (last.op = "extract" /\ mutated) => (last.err /\ last.data = <<>>)

\* the place of a registered match in the order of discovery: position
\* order, then the order within the slot of its first position
Before(a, b) ==
    LET ma == match_by_id[a]
        mb == match_by_id[b]
        at(m) == CHOOSE i \in 1 .. Len(elements[m.start_idx]) :
                     elements[m.start_idx][i].id = m.id
    IN  \/ ma.start_idx < mb.start_idx
        \/ ma.start_idx = mb.start_idx /\ at(ma) < at(mb)

Rank(a) == Cardinality({b \in Registered : Before(b, a)})

RECURSIVE CapturesFrom(_, _)
CapturesFrom(k, n) ==
    IF n >= Cardinality(Registered) THEN <<>>
    ELSE LET id == CHOOSE a \in Registered : Rank(a) = n
         IN  match_by_id[id].extractions[k] \o CapturesFrom(k, n + 1)

\* the captures of the registered matches, each match once
MergedCaptures == [k \in Keys |-> CapturesFrom(k, 0)]

\* extract failed although the data an earlier consolidate cached is still
\* the merge of the registered matches (the index went stale without
\* its captures changing)
C6_Witness ==
    /\ last.op = "extract" /\ last.err
    /\ extractions # NoExtractions
    /\ extractions = MergedCaptures

\* C7: whenever the index is consolidated, the aggregated data is the merge
\* of the captures of exactly the registered matches, each once, in
\* discovery order; so a second consolidate with no mutation in between
\* finds the same data.
C7_ConsolidateMergesOnce ==
    consolidated => extractions = MergedCaptures

\* consolidate ran over a two-position match with captures and another
\* match with captures, after a match had been revoked
C7_Witness ==
    /\ last.op = "consolidate" /\ consolidated
    /\ Len(extractions["k1"]) = 2
    /\ \E m \in RegisteredMatches : m.size = 2 /\ m.extractions # NoExtractions
    /\ Cardinality(Registered) = SeqLen + 1

\* the weight of the match id as get_matches left it, or as registered
WeightOf(id) ==
    IF \E i \in 1 .. Len(finalized.matches) : finalized.matches[i].id = id
    THEN (CHOOSE m \in Range(finalized.matches) : m.id = id).weight
    ELSE match_by_id[id].weight

\* C8: every match get_matches returns, the main match and the assumed ones
\* alike, weighs the minimum of its requested weight and the weights of the
\* matches it directly depends on.
C8_WeightIsMinimum ==
    (finalized.called /\ ~ finalized.err)
    => \A i \in 1 .. Len(finalized.matches) :
         LET m == finalized.matches[i]
             requested == IF i = 1 THEN finalized.weight
                          ELSE finalized.state.assumptions[i - 1].weight
         IN  m.weight = Min({requested} \cup
                            {WeightOf(d) : d \in Range(m.depends_on_matches)})

\* the ids the match id depends on, directly or through registered matches
RECURSIVE DependencyClosure(_)
DependencyClosure(S) ==
    LET more == UNION {Range(match_by_id[i].depends_on_matches) : i \in S \cap Registered}
    IN  IF more \subseteq S THEN S ELSE DependencyClosure(S \cup more)

ClosureOf(id) == DependencyClosure(Range(match_by_id[id].depends_on_matches))

\* the match id is registered after the step as before it, in every slot
\* of its span
StillStored(id) ==
    /\ id \in DOMAIN match_by_id'
    /\ match_by_id'[id] = match_by_id[id]
    /\ \A p \in Span(match_by_id[id]) :
         \E i \in 1 .. Len(elements'[p]) : elements'[p][i] = match_by_id[id]

\* the span of m lies within the span of main
Within(m, main) == m.start_idx >= main.start_idx /\ end_idx(m) <= end_idx(main)

\* C9 as claimed: after clean_matches(main_id) on an index with no dangling
\* dependency, the main match, its dependency closure and every atomic
\* (size 1) 'Character' match are still stored, and no other match within
\* the span of the main match is registered.
C9_CleanKeepsWinner_Claimed ==
    [][ (last'.op = "clean_matches" /\ NoDangling)
        => LET main == match_by_id[last'.id]
               atomic == {i \in Registered : /\ match_by_id[i].concept = "Character"
                                             /\ match_by_id[i].size = 1}
               kept == {main.id} \cup ClosureOf(main.id) \cup atomic
           IN  /\ \A i \in kept : StillStored(i)
               /\ \A i \in DOMAIN match_by_id' :
                    Within(match_by_id'[i], main) => i \in kept ]_vars

\* C9, amended: the main match, its dependency closure and every
\* 'Character' match without dependencies are still stored, and no other
\* match within the span whose concept is not 'Character' is registered.
C9_CleanKeepsWinner ==
    [][ (last'.op = "clean_matches" /\ NoDangling)
        => LET main == match_by_id[last'.id]
               units == {i \in Registered : /\ match_by_id[i].concept = "Character"
                                            /\ match_by_id[i].depends_on_matches = <<>>}
               winner == {main.id} \cup ClosureOf(main.id)
           IN  /\ \A i \in winner \cup units : StillStored(i)
               /\ \A i \in DOMAIN match_by_id' :
                    ( /\ Within(match_by_id'[i], main)
                      /\ match_by_id'[i].concept # "Character" ) => i \in winner ]_vars

\* clean_matches took an alternative away and left the main match, which
\* has a dependency, on an index without dangling dependency
C9_Witness ==
    /\ last.op = "clean_matches" /\ last.removed >= 1
    /\ NoDangling
    /\ last.id \in Registered
    /\ match_by_id[last.id].depends_on_matches # <<>>
    /\ match_by_id[last.id].size = 2

\* the registered matches drop_matches is asked to remove
DropTargets(concepts, hierarchy) ==
    {i \in Registered :
        \/ match_by_id[i].concept \in concepts
        \/ hierarchy /\ get_parents(match_by_id[i].concept) \cap concepts # {}}

\* C10: drop_matches removes the matches whose concept is in concepts or
\* descends from one of them and, exactly when cascade is true, the matches
\* depending on a removed match directly or transitively.
C10_DropHonoursCascade ==
    [][ last'.op = "drop_matches"
        => LET targets == DropTargets(last'.concepts, last'.hierarchy)
               gone == IF last'.cascade THEN WithDependents(targets) ELSE targets
           IN  DOMAIN match_by_id' = Registered \ gone ]_vars

\* the same for the calls with cascade = false, which the code does honour
C10_DropWithoutCascade ==
    [][ (last'.op = "drop_matches" /\ ~ last'.cascade)
        => DOMAIN match_by_id' = Registered \ DropTargets(last'.concepts, last'.hierarchy)
      ]_vars

\* the number of registered matches that depend on the match id, directly
\* or through further registered matches
Importance(id) == Cardinality(WithDependents({id}) \ {id})

\* the registered matches over the span sp whose concept is a child of c
Siblings(reg, c, sp) ==
    {m \in reg : m.concept \in get_children(c) /\ m.start_idx = sp[1] /\ m.size = sp[2]}

\* C11: when apply has finished with a single concept c declared, for every
\* span at most one match whose concept is a child of c is registered: of
\* the siblings found there, one of greatest importance is kept and the
\* others are revoked.
C11_SingleConceptResolved ==
    [][ (pc = "resolve" /\ pc' = "idle")
        => \A c \in Range(extractor.single_concepts), sp \in Spans :
             LET found == Siblings(RegisteredMatches, c, sp)
             IN  found # {}
                 => \E w \in found :
                      /\ \A m \in found : Importance(m.id) <= Importance(w.id)
                      /\ Siblings(RegisteredMatches', c, sp) = {w} ]_vars

\* the distinct (concept, start, size) triples stored
Triples == {<<m.concept, m.start_idx, m.size>> : m \in RegisteredMatches}

\* the triples the matches of an extractor can have
PossibleTriples(ex) ==
    {<<c, sp[1], sp[2]>> : c \in ProducedConcepts(ex), sp \in Spans}

\* C12: with patterns whose concepts are not dependency-sensitive, a pass
\* that reports a new match leaves strictly more distinct (concept, start,
\* size) triples stored, every new one a triple of the extractor, and a pass
\* that reports none leaves the loop; so a run has seen at most as many
\* reporting passes as triples of the extractor are stored, and one more
\* pass when it has left the loop; and the next pass of a run in its loop
\* is never held back for want of ids.
C12_FixpointTerminates ==
    /\ [][ pc = "loop"
           => IF last'.ret
              THEN /\ pc' = "loop"
                   /\ Cardinality(Triples') > Cardinality(Triples)
                   /\ Triples \subseteq Triples'
                   /\ Triples' \ Triples \subseteq PossibleTriples(extractor)
              ELSE /\ pc' = "resolve"
                   /\ Triples' = Triples ]_vars
    /\ [] ( /\ pc = "loop"
               => /\ passlog.pass <= Cardinality(Triples \cap PossibleTriples(extractor))
                  /\ apply_once(extractor, Self, nextId).nextId <= IdCap + 1
            /\ pc = "resolve"
               => passlog.pass <= 1 + Cardinality(PossibleTriples(extractor)) )

\* the loop was left by a third pass, the two before having stored matches
\* of three concepts
C12_Witness ==
    /\ pc = "resolve"
    /\ passlog.pass = 3
    /\ {"Word", "Noun", "Name"} \subseteq {m.concept : m \in RegisteredMatches}

\* C13: clean_matches(main_id) removes only matches whose span lies within
\* the span of the main match: every match that starts before it or ends
\* after it is still stored, in all its slots, even when it depends on a
\* match that the sweep removed.
C13_CleanKeepsOutside ==
    [][ last'.op = "clean_matches"
        => LET main == match_by_id[last'.id]
           IN  \A i \in Registered :
                 ~ Within(match_by_id[i], main) => StillStored(i) ]_vars

\* the concept is c or a descendant of c
IsOrDescends(concept, c) == concept = c \/ c \in get_parents(concept)

\* C14: in a pass, a pattern that declares inside = c is invoked at a
\* position only if a match registered at that moment covers the position
\* and has concept c or a descendant of c; a match it produces is submitted
\* to add_match only if a match registered at that moment has the same
\* start and size and concept c or a descendant; and add_match stores no
\* match of it that was not submitted.
C14_InsideFilter ==
    pc # "idle"
    => \A n \in 1 .. Len(passlog.calls) :
         LET e == passlog.calls[n]
             c == extractor.patterns[e.call.pattern].inside
         IN  c # ""
             => /\ e.invoked
                   => \E id \in e.call.known :
                        /\ e.call.start_idx \in Span(match_by_id[id])
                        /\ IsOrDescends(match_by_id[id].concept, c)
                /\ \A j \in 1 .. Len(e.results) :
                     LET res == e.results[j]
                     IN  /\ res.submitted
                            => \E id \in res.known :
                                 /\ match_by_id[id].start_idx = res.match.start_idx
                                 /\ match_by_id[id].size = res.match.size
                                 /\ IsOrDescends(match_by_id[id].concept, c)
                         /\ res.ret => res.submitted

\* in one pass a pattern with an `inside` stored a match over the span of a
\* match of the concept, and a match of such a pattern was held back
\* although a larger match of the concept covers its span
C14_Witness ==
    /\ pc # "idle"
    /\ \E n \in 1 .. Len(passlog.calls) :
         /\ extractor.patterns[passlog.calls[n].call.pattern].inside # ""
         /\ \E j \in 1 .. Len(passlog.calls[n].results) :
              passlog.calls[n].results[j].ret
    /\ \E n \in 1 .. Len(passlog.calls) :
         LET c == extractor.patterns[passlog.calls[n].call.pattern].inside
         IN  /\ c # ""
             /\ \E j \in 1 .. Len(passlog.calls[n].results) :
                  LET res == passlog.calls[n].results[j]
                  IN  /\ ~ res.submitted
                      /\ \E id \in res.known :
                           /\ IsOrDescends(match_by_id[id].concept, c)
                           /\ Span(res.match) \subseteq Span(match_by_id[id])
                           /\ match_by_id[id].size > res.match.size

\* C15: get_match_importance(id) of a registered match returns, without
\* raising, the number of registered matches that depend on id directly or
\* transitively.
C15_ImportanceCounts ==
    last.op = "get_match_importance"
    => /\ ~ last.err
       /\ last.count = Importance(last.id)

\* the ids that registered matches depend on and the registry does not hold
Vanished == UNION {Range(m.depends_on_matches) : m \in RegisteredMatches} \ Registered

\* C16: once a registered match refers to a vanished id, a lookup of that
\* id raises nothing: get_all_dependencies of the match returns its closure,
\* the vanished id in it and not followed, and get_matches of a derivation
\* state whose dependency list holds the vanished id returns its matches.
C16_VanishedIdTolerated ==
    /\ ( /\ last.op = "get_all_dependencies"
         /\ ClosureOf(last.id) \cap Vanished # {} )
       => (~ last.err /\ last.ids = ClosureOf(last.id))
    /\ ( /\ finalized.called
         /\ Range(finalized.state.depends_on_matches) \cap Vanished # {} )
       => (~ finalized.err /\ Len(finalized.matches) >= 1)

\* C17: for a dependency-sensitive concept, add_match of a match whose
\* dependencies are registered refuses it exactly when a stored match has
\* its concept, start, size and the same set of dependency ids, whatever the
\* order or repetition in the lists; otherwise the match is stored beside
\* the others.
C17_SameDependencySet ==
    [][ (last'.op = "add_match" /\ last'.sensitive /\ ~ last'.missing)
        => /\ last'.ret <=> ~ last'.sameset
           /\ last'.ret => /\ last'.id \in DOMAIN match_by_id'
                           /\ Registered \subseteq DOMAIN match_by_id' ]_vars

\* the MatchState operations that change a state after its construction
ForkMutations ==
    {"add_data", "extractions.append", "depends_on_matches.append", "assumptions.append"}

\* C18: get_next hands back a state that holds what its parent holds and
\* changes no state; an add_data call or an append to the capture map, the
\* dependency list or the assumption list of one state leaves the capture
\* map, the structure tree, the dependency list and the assumption list of
\* every other state unchanged.
C18_ForksIsolated ==
    [][ /\ last'.op = "get_next"
           => /\ Len(states') = Len(states) + 1
              /\ View(heap', states'[Len(states')]) = View(heap, states[last'.id])
              /\ \A t \in 1 .. Len(states) : View(heap', states'[t]) = View(heap, states[t])
        /\ last'.op \in ForkMutations
           => /\ Len(states') = Len(states)
              /\ View(heap', states'[last'.id]) # View(heap, states[last'.id])
              /\ \A t \in 1 .. Len(states) \ {last'.id} :
                    View(heap', states'[t]) = View(heap, states[t]) ]_vars

\* a parent holding a capture was forked twice, and then parent, child and
\* sibling went different ways, the last of them by add_data
C18_Witness ==
    /\ Len(states) = MaxStates
    /\ last.op = "add_data"
    /\ \A t \in 1 .. Len(states) : View(heap, states[t]).extractions["k1"].present
    /\ \A t, u \in 1 .. Len(states) : t # u => View(heap, states[t]) # View(heap, states[u])

\* the submissions of the last pass: one per match a pattern handed back,
\* with the invocation it belongs to
Submissions ==
    UNION { {<<i, j>> : j \in 1 .. Len(passlog.calls[i].results)} :
            i \in 1 .. Len(passlog.calls) }
Submission(ij) == passlog.calls[ij[1]].results[ij[2]]

\* the main match an assumed match of the last pass was finalized with
MainOf(ij) ==
    CHOOSE kj \in Submissions :
        /\ kj[1] = ij[1]
        /\ kj[2] < ij[2]
        /\ ~ Submission(kj).match.assumed
        /\ \A l \in (kj[2] + 1) .. (ij[2] - 1) : Submission(<<ij[1], l>>).match.assumed

\* add_match refused the submitted match although its dependencies were
\* registered: a stored match is equivalent to it
RefusedAsDuplicate(sub) ==
    /\ sub.submitted
    /\ ~ sub.ret
    /\ Range(sub.match.depends_on_matches) \subseteq sub.known

\* C19: in a pass of apply_once, an assumed match depends on nothing but
\* the main match finalized with it, whose id is not registered before; when
\* the main match is refused as a duplicate of a stored match the assumed
\* match is refused; an assumed match goes in only behind its main match
\* stored in the same invocation, so every assumed match of the index hangs
\* on a registered main match, and a pass that stores no main match stores
\* no assumed match.
C19_AssumedFollowMain ==
    /\ \A ij \in Submissions :
          Submission(ij).match.assumed
          => LET main == Submission(MainOf(ij))
                 asmp == Submission(ij)
             IN  /\ asmp.match.depends_on_matches = <<main.match.id>>
                 /\ main.match.id \notin main.known
                 /\ RefusedAsDuplicate(main) => ~ asmp.ret
                 /\ asmp.ret => main.ret
    /\ \A m \in RegisteredMatches :
          m.assumed => /\ Len(m.depends_on_matches) = 1
                       /\ m.depends_on_matches[1] \in Registered
                       /\ ~ match_by_id[m.depends_on_matches[1]].assumed
    /\ (\A ij \in Submissions : Submission(ij).ret => Submission(ij).match.assumed)
       => (\A ij \in Submissions : ~ Submission(ij).ret)

\* a pattern invoked where its main match is already stored and its assumed
\* match is not: the main match is refused as a duplicate, and the assumed
\* match, of which the index holds no equivalent, is refused with it
C19_Witness ==
    \E ij \in Submissions :
        /\ Submission(ij).match.assumed
        /\ RefusedAsDuplicate(Submission(MainOf(ij)))
        /\ Submission(ij).submitted
        /\ ~ Submission(ij).ret
        /\ ~ \E s \in RegisteredMatches :
                /\ s.concept = Submission(ij).match.concept
                /\ s.start_idx = Submission(ij).match.start_idx
                /\ s.size = Submission(ij).match.size

\* C20: every dependency of a registered match was handed out before the
\* match (the ids are handed out in the order of registration), so no match
\* depends on itself, directly or through others; revoke_match, cascading
\* or not, comes back with the id gone, and get_all_dependencies comes back
\* with the closure of the match.
C20_DependenciesAcyclic ==
    /\ \A m \in RegisteredMatches : \A d \in Range(m.depends_on_matches) : d < m.id
    /\ \A id \in Registered : id \notin ClosureOf(id)
    /\ last.op = "revoke_match" => last.id \notin Registered
    /\ last.op = "get_all_dependencies" => last.ids = ClosureOf(last.id)

\* get_all_dependencies walked a stored chain: the match depends on a
\* registered match that depends on a registered match
C20_Witness ==
    /\ last.op = "get_all_dependencies"
    /\ last.id \in Registered
    /\ \E d \in Range(match_by_id[last.id].depends_on_matches) \cap Registered :
          /\ Range(match_by_id[d].depends_on_matches) \cap Registered # {}
          /\ Range(match_by_id[d].depends_on_matches) \subseteq last.ids

====
